---- MODULE Spec2Model ----
(***************************************************************************)
(* Model of GoAnyBusiness:                                                 *)
(*   - the server lifecycle of Run (internal/app/server.go and its older   *)
(*     copy internal/any-business/server.go): the serving goroutine, the   *)
(*     signal watcher, the coordinating select and the two-phase shutdown; *)
(*   - the configuration registry (NewConfig / GetConfig /                 *)
(*     GetDefaultConfig) with its mutex and its map.                       *)
(* The two parts share no state; each has its own specification.          *)
(***************************************************************************)
EXTENDS Integers, Sequences, FiniteSets, TLC

\* ------------------------------------------------------------------ bounds
\* in-flight requests the listener may be serving at once
MaxInflight == 2
\* operating-system signals sent to the process during one run
MaxSignals == 2

\* ------------------------------------------------------------- Run: state
VARIABLES
    variant,        \* which Run: "app" (internal/app) or "any_business"
    portFree,       \* environment: the bind address is free
    listening,      \* srv has an open listener
    inShutdown,     \* srv.inShutdown (set by Shutdown and by Close)
    conns,          \* in-flight requests of srv
    servePc,        \* position of the serving goroutine
    lasErr,         \* value srv.ListenAndServe returned
    startUpErr,     \* the completion channel, capacity 1
    sigCh,          \* the signal channel, capacity 1
    ncCh,           \* any_business: the channel inside signal.NotifyContext
    notifyOn,       \* signal.Notify(sigCh, ...) is in force
    ncOn,           \* any_business: NotifyContext's registration is in force
    nSignals,       \* signals sent so far
    watcherPc,      \* position of the signal-watcher goroutine
    ctxDone,        \* the first context is cancelled
    pc,             \* position of the coordinating path (Run itself)
    selected,       \* branch the coordinating select took
    graceCtx,       \* the grace-period context
    lnerr,          \* error of closing the listener inside Shutdown
    shutdownRes,    \* value srv.Shutdown returned
    shutdownCalls,  \* calls of srv.Shutdown
    closeCalls,     \* calls of srv.Close
    logged,         \* log lines written
    exit,           \* "running", "returned" or "fatal" (os.Exit by log.Fatalf)
    everServing,    \* history: the listener has been bound
    sigWhileServing,\* history: a recognized signal arrived while serving
    shutdownAt,     \* history: servePc at the call of srv.Shutdown
    sigInShutdown   \* history: a recognized signal arrived during shutdown

runVars == <<variant, portFree, listening, inShutdown, conns, servePc, lasErr,
             startUpErr, sigCh, ncCh, notifyOn, ncOn, nSignals, watcherPc,
             ctxDone, pc, selected, graceCtx, lnerr, shutdownRes,
             shutdownCalls, closeCalls, logged, exit, everServing,
             sigWhileServing, shutdownAt, sigInShutdown>>

\* -------------------------------------------------------- registry: state
\* concurrent callers of the registry (goroutines)
NumCallers == 2
\* registry calls made in one behaviour
MaxCalls == 3

VARIABLES
    configsSingletonMapping, \* the map: name -> Absent, NilConfig or a Config
    configLock,     \* set of callers holding the mutex (empty or one caller)
    call,           \* per caller: the call in progress and its position
    result,         \* per caller: outcome of its last completed call
    ginPort,        \* the process environment variable PORT
    crashed,        \* the runtime ended the process with a fatal error
    nCalls,         \* calls made so far
    original,       \* history: per name, the first snapshot stored
    dupFailed       \* history: names a duplicate NewConfig failed on

regVars == <<configsSingletonMapping, configLock, call, result, ginPort,
             crashed, nCalls, original, dupFailed>>

vars == <<runVars, regVars>>

Variants == {"app", "any_business"}

\* signal.Notify(sigCh, SIGINT, SIGTERM, SIGHUP, SIGQUIT)
Recognized == {"SIGINT", "SIGTERM", "SIGHUP", "SIGQUIT"}
\* a signal the process does not register for (ignored by default)
Signals == Recognized \cup {"SIGWINCH"}

\* make(chan ..., 1)
ChanCap == 1

\* non-blocking send of the signal package: dropped when the buffer is full
Deliver(ch, s) == IF Len(ch) < ChanCap THEN Append(ch, s) ELSE ch

Serving == listening /\ servePc = "serving"

InitRun ==
    /\ variant \in Variants
    /\ portFree \in BOOLEAN
    /\ listening = FALSE
    /\ inShutdown = FALSE
    /\ conns = 0
    /\ servePc = "start"
    /\ lasErr = "none"
    /\ startUpErr = <<>>
    /\ sigCh = <<>>
    /\ ncCh = <<>>
    /\ notifyOn = FALSE
    /\ ncOn = FALSE
    /\ nSignals = 0
    /\ watcherPc = "idle"
    /\ ctxDone = FALSE
    /\ pc = "notify"
    /\ selected = "none"
    /\ graceCtx = "none"
    /\ lnerr = FALSE
    /\ shutdownRes = "none"
    /\ shutdownCalls = 0
    /\ closeCalls = 0
    /\ logged = {}
    /\ exit = "running"
    /\ everServing = FALSE
    /\ sigWhileServing = FALSE
    /\ shutdownAt = "none"
    /\ sigInShutdown = FALSE

\* the process is alive (log.Fatalf has not called os.Exit)
Alive == exit # "fatal"

\* ------------------------------------------------- Run: serving goroutine
\* mutant of ListenOutcome: ListenAndServe does not look at inShutdown
ListenOutcome_NoShutdownCheck(shut, free) == IF ~free THEN "bind" ELSE "ok"

\* srv.ListenAndServe up to the accept loop: ErrServerClosed at once when the
\* server is already shutting down; net.Listen fails when the address is
\* occupied; otherwise the listener is bound.
ListenOutcome(shut, free) ==
    IF shut THEN "ErrServerClosed" ELSE IF ~free THEN "bind" ELSE "ok"

\* go func() { log "Server starting..."; err := srv.ListenAndServe() ...
ServeListen ==
    /\ Alive /\ servePc = "start"
    /\ logged' = logged \cup {"starting"}
    /\ LET r == ListenOutcome(inShutdown, portFree) IN
         IF r = "ok"
           THEN /\ listening' = TRUE
                /\ everServing' = TRUE
                /\ servePc' = "serving"
                /\ UNCHANGED lasErr
           ELSE /\ lasErr' = r
                /\ servePc' = "returned"
                /\ UNCHANGED <<listening, everServing>>
    /\ UNCHANGED <<variant, portFree, inShutdown, conns, startUpErr, sigCh,
                   ncCh, notifyOn, ncOn, nSignals, watcherPc, ctxDone, pc,
                   selected, graceCtx, lnerr, shutdownRes, shutdownCalls,
                   closeCalls, exit, sigWhileServing, shutdownAt>>
    /\ UNCHANGED sigInShutdown
    /\ UNCHANGED regVars

\* the accept loop fails for a reason other than an intentional close
ServeAcceptFail ==
    /\ Alive /\ servePc = "serving" /\ ~inShutdown
    /\ lasErr' = "runtime"
    /\ listening' = FALSE
    /\ servePc' = "returned"
    /\ UNCHANGED <<variant, portFree, inShutdown, conns, startUpErr, sigCh,
                   ncCh, notifyOn, ncOn, nSignals, watcherPc, ctxDone, pc,
                   selected, graceCtx, lnerr, shutdownRes, shutdownCalls,
                   closeCalls, logged, exit, everServing, sigWhileServing,
                   shutdownAt>>
    /\ UNCHANGED sigInShutdown
    /\ UNCHANGED regVars

\* the accept loop ends because Shutdown or Close closed the listener
ServeClosed ==
    /\ Alive /\ servePc = "serving" /\ inShutdown
    /\ lasErr' = "ErrServerClosed"
    /\ listening' = FALSE
    /\ servePc' = "returned"
    /\ UNCHANGED <<variant, portFree, inShutdown, conns, startUpErr, sigCh,
                   ncCh, notifyOn, ncOn, nSignals, watcherPc, ctxDone, pc,
                   selected, graceCtx, lnerr, shutdownRes, shutdownCalls,
                   closeCalls, logged, exit, everServing, sigWhileServing,
                   shutdownAt>>
    /\ UNCHANGED sigInShutdown
    /\ UNCHANGED regVars

\* mutant of Completion: whatever srv.ListenAndServe returned is reported
Completion_ReportAll(err) == err

\* mutant of Completion: the goroutine reports no error at all
Completion_Swallow(err) == "nil"

\* what the goroutine writes: the error, or nil for ErrServerClosed
Completion(err) == IF err \in {"bind", "runtime"} THEN err ELSE "nil"

\* mutant of AfterSend: the return after the error send is missing, the
\* goroutine goes on to a second send
AfterSend_NoReturn(err) ==
    IF err \in {"bind", "runtime"} THEN "returned" ELSE "done"

\* where the goroutine is after its send: "return" after the error send, the
\* end of the function after the nil send
AfterSend(err) == "done"

\* startUpErr <- ... (blocks while the buffer is full)
ServeSend ==
    /\ Alive /\ servePc = "returned"
    /\ Len(startUpErr) < ChanCap
    /\ startUpErr' = Append(startUpErr, Completion(lasErr))
    /\ servePc' = AfterSend(lasErr)
    /\ UNCHANGED <<variant, portFree, listening, inShutdown, conns, lasErr,
                   sigCh, ncCh, notifyOn, ncOn, nSignals, watcherPc, ctxDone,
                   pc, selected, graceCtx, lnerr, shutdownRes, shutdownCalls,
                   closeCalls, logged, exit, everServing, sigWhileServing,
                   shutdownAt>>
    /\ UNCHANGED sigInShutdown
    /\ UNCHANGED regVars

\* a request is accepted and its handler starts
RequestArrives ==
    /\ Alive /\ Serving /\ ~inShutdown
    /\ conns < MaxInflight
    /\ conns' = conns + 1
    /\ UNCHANGED <<variant, portFree, listening, inShutdown, servePc, lasErr,
                   startUpErr, sigCh, ncCh, notifyOn, ncOn, nSignals,
                   watcherPc, ctxDone, pc, selected, graceCtx, lnerr,
                   shutdownRes, shutdownCalls, closeCalls, logged, exit,
                   everServing, sigWhileServing, shutdownAt>>
    /\ UNCHANGED sigInShutdown
    /\ UNCHANGED regVars

\* a handler finishes
RequestCompletes ==
    /\ Alive /\ conns > 0
    /\ conns' = conns - 1
    /\ UNCHANGED <<variant, portFree, listening, inShutdown, servePc, lasErr,
                   startUpErr, sigCh, ncCh, notifyOn, ncOn, nSignals,
                   watcherPc, ctxDone, pc, selected, graceCtx, lnerr,
                   shutdownRes, shutdownCalls, closeCalls, logged, exit,
                   everServing, sigWhileServing, shutdownAt>>
    /\ UNCHANGED sigInShutdown
    /\ UNCHANGED regVars

\* ------------------------------------------------------ Run: environment
\* the operating system sends a signal to the process
SignalArrives ==
    /\ Alive /\ notifyOn
    /\ nSignals < MaxSignals
    /\ \E s \in Signals :
         /\ sigCh' = IF s \in Recognized THEN Deliver(sigCh, s) ELSE sigCh
         /\ ncCh' = IF s \in Recognized /\ ncOn THEN Deliver(ncCh, s) ELSE ncCh
         /\ sigWhileServing' =
              (sigWhileServing \/ (s \in Recognized /\ Serving /\ ~inShutdown))
         /\ sigInShutdown' =
              (sigInShutdown \/ (s \in Recognized /\ shutdownCalls > 0
                                   /\ exit = "running"))
    /\ nSignals' = nSignals + 1
    /\ UNCHANGED <<variant, portFree, listening, inShutdown, conns, servePc,
                   lasErr, startUpErr, notifyOn, ncOn, watcherPc, ctxDone, pc,
                   selected, graceCtx, lnerr, shutdownRes, shutdownCalls,
                   closeCalls, logged, exit, everServing, shutdownAt>>
    /\ UNCHANGED regVars

\* ---------------------------------------------- Run: the signal watcher
\* app: go func() { sig := <-sigCh; log...; cancel() }() -- the receive.
\* any_business: the goroutine of signal.NotifyContext receives from its own
\* channel (the log line is written by the coordinating path there), or ends
\* when its context is done (the deferred stop()).
WatcherRecv ==
    /\ Alive /\ watcherPc = "recv"
    /\ IF variant = "app"
         THEN /\ sigCh # <<>>
              /\ sigCh' = Tail(sigCh)
              /\ logged' = logged \cup {"signal"}
              /\ watcherPc' = "cancel"
              /\ UNCHANGED ncCh
         ELSE \/ /\ ncCh # <<>>
                 /\ ncCh' = Tail(ncCh)
                 /\ watcherPc' = "cancel"
                 /\ UNCHANGED <<sigCh, logged>>
              \/ /\ ctxDone
                 /\ watcherPc' = "done"
                 /\ UNCHANGED <<sigCh, ncCh, logged>>
    /\ UNCHANGED <<variant, portFree, listening, inShutdown, conns, servePc,
                   lasErr, startUpErr, notifyOn, ncOn, nSignals, ctxDone, pc,
                   selected, graceCtx, lnerr, shutdownRes, shutdownCalls,
                   closeCalls, exit, everServing, sigWhileServing, shutdownAt>>
    /\ UNCHANGED sigInShutdown
    /\ UNCHANGED regVars

\* mutant of WatcherAfterCancel: the watcher goes back to its receive
WatcherAfterCancel_Loop == "recv"

\* the watcher receives one signal only: after cancel() the goroutine ends
WatcherAfterCancel == "done"

\* cancel().  In app the goroutine's closure reads the variable cancel when
\* it calls it: the first context's cancel function until Run assigns the
\* grace context's one to the same variable (ctx, cancel = WithTimeout(...)).
\* In any_business the goroutine of NotifyContext cancels its own context.
WatcherCancel ==
    /\ Alive /\ watcherPc = "cancel"
    /\ IF variant = "app" /\ graceCtx # "none"
         THEN /\ graceCtx' = IF graceCtx = "active" THEN "cancelled"
                                                   ELSE graceCtx
              /\ UNCHANGED ctxDone
         ELSE /\ ctxDone' = TRUE
              /\ UNCHANGED graceCtx
    /\ watcherPc' = WatcherAfterCancel
    /\ UNCHANGED <<variant, portFree, listening, inShutdown, conns, servePc,
                   lasErr, startUpErr, sigCh, ncCh, notifyOn, ncOn, nSignals,
                   pc, selected, lnerr, shutdownRes, shutdownCalls,
                   closeCalls, logged, exit, everServing, sigWhileServing,
                   shutdownAt>>
    /\ UNCHANGED sigInShutdown
    /\ UNCHANGED regVars

\* ------------------------------------------- Run: the coordinating path
\* a return of Run: the deferred calls run, last registered first.
\* app: cancel() of the grace context when it was created, cancel() of the
\* first context, signal.Stop(sigCh).  any_business: cancel() of the grace
\* context and stop() of NotifyContext; signal.Notify(sigCh) is never undone.
Return ==
    /\ exit' = "returned"
    /\ pc' = "done"
    /\ graceCtx' = IF graceCtx = "none" THEN "none" ELSE "released"
    /\ ctxDone' = TRUE
    /\ notifyOn' = (variant # "app" /\ notifyOn)
    /\ ncOn' = FALSE

\* log.Fatalf: the line is written and os.Exit(1) ends the process; no
\* deferred call runs.
Fatal ==
    /\ exit' = "fatal"
    /\ pc' = "done"
    /\ UNCHANGED <<graceCtx, ctxDone, notifyOn, ncOn>>

\* log "Server started"; sigCh := make(chan os.Signal, 1); signal.Notify
CoordNotify ==
    /\ Alive /\ pc = "notify"
    /\ logged' = logged \cup {"started"}
    /\ notifyOn' = TRUE
    /\ pc' = "context"
    /\ UNCHANGED <<variant, portFree, listening, inShutdown, conns, servePc,
                   lasErr, startUpErr, sigCh, ncCh, ncOn, nSignals, watcherPc,
                   ctxDone, selected, graceCtx, lnerr, shutdownRes,
                   shutdownCalls, closeCalls, exit, everServing,
                   sigWhileServing, shutdownAt>>
    /\ UNCHANGED sigInShutdown
    /\ UNCHANGED regVars

\* app: ctx, cancel := context.WithCancel; go func() { <-sigCh ... }()
\* any_business: ctx, stop := signal.NotifyContext(...)
CoordContext ==
    /\ Alive /\ pc = "context"
    /\ watcherPc' = "recv"
    /\ ncOn' = (variant = "any_business")
    /\ pc' = "select"
    /\ UNCHANGED <<variant, portFree, listening, inShutdown, conns, servePc,
                   lasErr, startUpErr, sigCh, ncCh, notifyOn, nSignals,
                   ctxDone, selected, graceCtx, lnerr, shutdownRes,
                   shutdownCalls, closeCalls, logged, exit, everServing,
                   sigWhileServing, shutdownAt>>
    /\ UNCHANGED sigInShutdown
    /\ UNCHANGED regVars

\* select { case <-ctx.Done(): ...
CoordSelectSignal ==
    /\ Alive /\ pc = "select"
    /\ ctxDone
    /\ selected' = "signal"
    /\ pc' = IF variant = "app" THEN "shutdown" ELSE "recvSig"
    /\ UNCHANGED <<variant, portFree, listening, inShutdown, conns, servePc,
                   lasErr, startUpErr, sigCh, ncCh, notifyOn, ncOn, nSignals,
                   watcherPc, ctxDone, graceCtx, lnerr, shutdownRes,
                   shutdownCalls, closeCalls, logged, exit, everServing,
                   sigWhileServing, shutdownAt>>
    /\ UNCHANGED sigInShutdown
    /\ UNCHANGED regVars

\* any_business: sig := <-sigCh; log "Shutting down gracefully (received..."
CoordRecvSig ==
    /\ Alive /\ pc = "recvSig"
    /\ sigCh # <<>>
    /\ sigCh' = Tail(sigCh)
    /\ logged' = logged \cup {"signal"}
    /\ pc' = "shutdown"
    /\ UNCHANGED <<variant, portFree, listening, inShutdown, conns, servePc,
                   lasErr, startUpErr, ncCh, notifyOn, ncOn, nSignals,
                   watcherPc, ctxDone, selected, graceCtx, lnerr, shutdownRes,
                   shutdownCalls, closeCalls, exit, everServing,
                   sigWhileServing, shutdownAt>>
    /\ UNCHANGED sigInShutdown
    /\ UNCHANGED regVars

\* mutant of OnCompletion: an error falls through to the shutdown
OnCompletion_FallThrough(err) == "stopped"

\* what the completion branch of the select does with the value received:
\* if err != nil { log...; return }, otherwise on to the shutdown
OnCompletion(err) == IF err # "nil" THEN "failure" ELSE "stopped"

\* ... case err := <-startUpErr:
\*   err != nil: log "server startup/runtime failure"; return
\*               (any_business: log.Fatalf)
\*   err == nil: log "Shutting down gracefully (After server stop serving)"
CoordSelectStartUpErr ==
    /\ Alive /\ pc = "select"
    /\ startUpErr # <<>>
    /\ startUpErr' = Tail(startUpErr)
    /\ selected' = OnCompletion(Head(startUpErr))
    /\ IF selected' = "failure"
         THEN /\ logged' = logged \cup {"failure"}
              /\ IF variant = "app" THEN Return ELSE Fatal
         ELSE /\ logged' = logged \cup {"stopped_serving"}
              /\ pc' = "shutdown"
              /\ UNCHANGED <<graceCtx, ctxDone, notifyOn, ncOn, exit>>
    /\ UNCHANGED <<variant, portFree, listening, inShutdown, conns, servePc,
                   lasErr, sigCh, ncCh, nSignals, watcherPc, lnerr,
                   shutdownRes, shutdownCalls, closeCalls, everServing,
                   sigWhileServing, shutdownAt>>
    /\ UNCHANGED sigInShutdown
    /\ UNCHANGED regVars

\* ctx, cancel = context.WithTimeout(..., 10*time.Second); defer cancel();
\* srv.Shutdown(ctx) is entered: it sets inShutdown and closes the listener
\* (closing an open listener may itself fail).
CoordShutdown ==
    /\ Alive /\ pc = "shutdown"
    /\ graceCtx' = "active"
    /\ shutdownCalls' = shutdownCalls + 1
    /\ shutdownAt' = servePc
    /\ inShutdown' = TRUE
    /\ listening' = FALSE
    /\ lnerr' \in (IF listening THEN BOOLEAN ELSE {FALSE})
    /\ pc' = "shutdownWait"
    /\ UNCHANGED <<variant, portFree, conns, servePc, lasErr, startUpErr,
                   sigCh, ncCh, notifyOn, ncOn, nSignals, watcherPc, ctxDone,
                   selected, shutdownRes, closeCalls, logged, exit,
                   everServing, sigWhileServing>>
    /\ UNCHANGED sigInShutdown
    /\ UNCHANGED regVars

\* the grace period elapses while Shutdown waits for busy connections
GraceExpires ==
    /\ Alive /\ pc = "shutdownWait"
    /\ graceCtx = "active" /\ conns > 0
    /\ graceCtx' = "expired"
    /\ UNCHANGED <<variant, portFree, listening, inShutdown, conns, servePc,
                   lasErr, startUpErr, sigCh, ncCh, notifyOn, ncOn, nSignals,
                   watcherPc, ctxDone, pc, selected, lnerr, shutdownRes,
                   shutdownCalls, closeCalls, logged, exit, everServing,
                   sigWhileServing, shutdownAt>>
    /\ UNCHANGED sigInShutdown
    /\ UNCHANGED regVars

\* mutant of AfterShutdown: an error of srv.Shutdown makes Run call it again
AfterShutdown_Retry(res) == IF res = "nil" THEN "cleanup" ELSE "shutdown"

\* mutant of AfterShutdown: srv.Close is called whatever srv.Shutdown returned
AfterShutdown_AlwaysClose(res) == "close"

\* mutant of AfterShutdown: the error of srv.Shutdown is ignored
AfterShutdown_IgnoreError(res) == "cleanup"

\* where Run goes after srv.Shutdown returned res
AfterShutdown(res) == IF res = "nil" THEN "cleanup" ELSE "close"

\* srv.Shutdown returns: every connection is idle, so it returns the error of
\* closing the listener (nil when there was none)
ShutdownReturnsDrained ==
    /\ Alive /\ pc = "shutdownWait"
    /\ conns = 0
    /\ shutdownRes' = IF lnerr THEN "lnerr" ELSE "nil"
    /\ pc' = AfterShutdown(shutdownRes')
    /\ UNCHANGED <<variant, portFree, listening, inShutdown, conns, servePc,
                   lasErr, startUpErr, sigCh, ncCh, notifyOn, ncOn, nSignals,
                   watcherPc, ctxDone, selected, graceCtx, lnerr,
                   shutdownCalls, closeCalls, logged, exit, everServing,
                   sigWhileServing, shutdownAt>>
    /\ UNCHANGED sigInShutdown
    /\ UNCHANGED regVars

\* srv.Shutdown returns ctx.Err(): the deadline passed (or the grace context
\* was cancelled)
ShutdownReturnsDeadline ==
    /\ Alive /\ pc = "shutdownWait"
    /\ graceCtx \in {"expired", "cancelled"}
    /\ shutdownRes' = IF graceCtx = "expired" THEN "deadline" ELSE "canceled"
    /\ pc' = AfterShutdown(shutdownRes')
    /\ UNCHANGED <<variant, portFree, listening, inShutdown, conns, servePc,
                   lasErr, startUpErr, sigCh, ncCh, notifyOn, ncOn, nSignals,
                   watcherPc, ctxDone, selected, graceCtx, lnerr,
                   shutdownCalls, closeCalls, logged, exit, everServing,
                   sigWhileServing, shutdownAt>>
    /\ UNCHANGED sigInShutdown
    /\ UNCHANGED regVars

\* _ = srv.Close(): the listener and every connection are closed, the error
\* is dropped
CoordClose ==
    /\ Alive /\ pc = "close"
    /\ closeCalls' = closeCalls + 1
    /\ inShutdown' = TRUE
    /\ listening' = FALSE
    /\ conns' = 0
    /\ pc' = "logForced"
    /\ UNCHANGED <<variant, portFree, servePc, lasErr, startUpErr, sigCh,
                   ncCh, notifyOn, ncOn, nSignals, watcherPc, ctxDone,
                   selected, graceCtx, lnerr, shutdownRes, shutdownCalls,
                   logged, exit, everServing, sigWhileServing, shutdownAt>>
    /\ UNCHANGED sigInShutdown
    /\ UNCHANGED regVars

\* app: log.Printf("... Server forced to shutdown ..."); return
\* any_business: log.Fatalf("... Server forced to shutdown ...")
CoordForcedExit ==
    /\ Alive /\ pc = "logForced"
    /\ logged' = logged \cup {"forced"}
    /\ IF variant = "app" THEN Return ELSE Fatal
    /\ UNCHANGED <<variant, portFree, listening, inShutdown, conns, servePc,
                   lasErr, startUpErr, sigCh, ncCh, nSignals, watcherPc,
                   selected, lnerr, shutdownRes, shutdownCalls, closeCalls,
                   everServing, sigWhileServing, shutdownAt>>
    /\ UNCHANGED sigInShutdown
    /\ UNCHANGED regVars

\* log "Server Shutdown, cleaning up resources"; log "Server exiting"; return
CoordCleanExit ==
    /\ Alive /\ pc = "cleanup"
    /\ logged' = logged \cup {"cleanup", "exiting"}
    /\ Return
    /\ UNCHANGED <<variant, portFree, listening, inShutdown, conns, servePc,
                   lasErr, startUpErr, sigCh, ncCh, nSignals, watcherPc,
                   selected, lnerr, shutdownRes, shutdownCalls, closeCalls,
                   everServing, sigWhileServing, shutdownAt>>
    /\ UNCHANGED sigInShutdown
    /\ UNCHANGED regVars

\* ------------------------------------------------------------- registry
Callers == 1 .. NumCallers

\* const ( Testing ... Production; DefaultConfigName = "default" )
Testing == "testing"
Development == "development"
Staging == "staging"
Production == "production"
DefaultConfigName == "default"

\* mutant of Envs: one environment is missing from the array
Envs_NoStaging == <<Testing, Development, Production>>

\* Envs = [...]Environment{Testing, Development, Staging, Production}
Envs == <<Testing, Development, Staging, Production>>

\* configuration names the callers use
Names == {DefaultConfigName, "test"}
\* values of APP_ENVIRONMENT as NewConfig reads them (the last two are not
\* environments: a short form, and a different letter case)
EnvInputs == {Testing, Development, Staging, Production, "prod", "Production"}
\* values of APP_PORT as NewConfig reads them (an int; the second does not
\* fit a uint16)
PortInputs == {8001, 73538}

\* map states of a key: missing, or inserted with the zero value (a nil
\* *Config) before the element is stored
Absent == [key |-> "absent"]
NilConfig == [ptr |-> "nil"]

NoCall == [op |-> "none", pc |-> "idle"]
NoResult == [op |-> "none", kind |-> "none"]

\* uint16(port)
Uint16(v) == v % 65536

\* mutant of Contains: every value passes for an environment
Contains_Always(seq, e) == TRUE

\* slices.Contains(Envs[:], environment)
Contains(seq, e) == \E i \in 1 .. Len(seq) : seq[i] = e

\* mutant of Exists: only the default name is checked for a duplicate
Exists_OnlyDefault(m, name) == name = DefaultConfigName /\ m[name] # Absent

\* mutant of Exists: the duplicate check never finds the name
Exists_Never(m, name) == FALSE

\* _, ok := configsSingletonMapping[configName]
Exists(m, name) == m[name] # Absent

\* &Config{Env: environment, ..., port: uint16(port)} (AppName, AppVersion,
\* TrustedProxies and host are copied from the environment the same way)
MakeConfig(environment, port) == [Env |-> environment, port |-> Uint16(port)]

InitRegistry ==
    /\ configsSingletonMapping = [n \in Names |-> Absent]
    /\ configLock = {}
    /\ call = [p \in Callers |-> NoCall]
    /\ result = [p \in Callers |-> NoResult]
    /\ ginPort = "unset"
    /\ crashed = FALSE
    /\ nCalls = 0
    /\ original = [n \in Names |-> Absent]
    /\ dupFailed = {}

\* mutant of Unlock: the unlock is not deferred, a panic leaves the mutex held
Unlock_Skipped(lock, p) == lock

\* the deferred configLock.Unlock(): it runs when NewConfig returns and when
\* a panic unwinds it
Unlock(lock, p) == lock \ {p}

\* a caller enters NewConfig(configName)
NewConfigCall(p) ==
    /\ ~crashed /\ call[p].pc = "idle"
    /\ nCalls < MaxCalls
    /\ \E n \in Names :
         call' = [call EXCEPT ![p] =
                    [op |-> "NewConfig", pc |-> "lock", name |-> n,
                     registeredAtCall |->
                        (configsSingletonMapping[n] \notin {Absent, NilConfig})]]
    /\ result' = [result EXCEPT ![p] = NoResult]
    /\ nCalls' = nCalls + 1
    /\ UNCHANGED <<configsSingletonMapping, configLock, ginPort, crashed,
                   original, dupFailed>>
    /\ UNCHANGED runVars

\* configLock.Lock(); defer configLock.Unlock()
NewConfigLock(p) ==
    /\ ~crashed /\ call[p].pc = "lock"
    /\ configLock = {}
    /\ configLock' = {p}
    /\ call' = [call EXCEPT ![p].pc = "check"]
    /\ UNCHANGED <<configsSingletonMapping, result, ginPort, crashed, nCalls,
                   original, dupFailed>>
    /\ UNCHANGED runVars

\* the duplicate check: panic "Config '%s' already exists"; the deferred
\* Unlock runs as the panic unwinds
NewConfigCheck(p) ==
    /\ ~crashed /\ call[p].pc = "check"
    /\ IF Exists(configsSingletonMapping, call[p].name)
         THEN /\ result' = [result EXCEPT ![p] =
                   [op |-> "NewConfig", kind |-> "panic",
                    name |-> call[p].name, present |-> TRUE,
                    registeredAtCall |-> call[p].registeredAtCall,
                    msg |-> <<"already exists", call[p].name>>]]
              /\ dupFailed' = dupFailed \cup {call[p].name}
              /\ configLock' = Unlock(configLock, p)
              /\ call' = [call EXCEPT ![p] = NoCall]
         ELSE /\ call' = [call EXCEPT ![p].pc = "env"]
              /\ UNCHANGED <<result, dupFailed, configLock>>
    /\ UNCHANGED <<configsSingletonMapping, ginPort, crashed, nCalls,
                   original>>
    /\ UNCHANGED runVars

\* port := utils.GetEnvInt("APP_PORT", 8001); os.Setenv("PORT",
\* strconv.Itoa(port)); environment := Environment(utils.GetEnvString(
\* "APP_ENVIRONMENT", "development")); the environment is validated: panic
\* "Invalid environment: '%s', supported envs are %v"; the deferred Unlock
\* runs as the panic unwinds
NewConfigEnv(p) ==
    /\ ~crashed /\ call[p].pc = "env"
    /\ \E environment \in EnvInputs, port \in PortInputs :
         /\ ginPort' = ToString(port)
         /\ IF ~Contains(Envs, environment)
              THEN /\ result' = [result EXCEPT ![p] =
                        [op |-> "NewConfig", kind |-> "panic",
                         name |-> call[p].name, present |-> FALSE,
                         env |-> environment,
                         registeredAtCall |-> call[p].registeredAtCall,
                         msg |-> <<"Invalid environment", environment, Envs>>]]
                   /\ configLock' = Unlock(configLock, p)
                   /\ call' = [call EXCEPT ![p] = NoCall]
              ELSE /\ call' = [call EXCEPT ![p] =
                        [op |-> "NewConfig", pc |-> "assign",
                         name |-> call[p].name,
                         registeredAtCall |-> call[p].registeredAtCall,
                         env |-> environment, port |-> port]]
                   /\ UNCHANGED <<result, configLock>>
    /\ UNCHANGED <<configsSingletonMapping, crashed, nCalls, original,
                   dupFailed>>
    /\ UNCHANGED runVars

\* configsSingletonMapping[configName] = config, first part: the runtime's
\* map assignment starts (the map is marked as being written)
NewConfigAssignBegin(p) ==
    /\ ~crashed /\ call[p].pc = "assign"
    /\ call' = [call EXCEPT ![p].pc = "assigning"]
    /\ UNCHANGED <<configsSingletonMapping, configLock, result, ginPort,
                   crashed, nCalls, original, dupFailed>>
    /\ UNCHANGED runVars

\* ... second part: the key is inserted with a zero element and the write
\* mark is cleared; the element is stored by the caller afterwards
NewConfigAssignEnd(p) ==
    /\ ~crashed /\ call[p].pc = "assigning"
    /\ configsSingletonMapping' =
         [configsSingletonMapping EXCEPT ![call[p].name] =
            IF @ = Absent THEN NilConfig ELSE @]
    /\ call' = [call EXCEPT ![p].pc = "store"]
    /\ UNCHANGED <<configLock, result, ginPort, crashed, nCalls, original,
                   dupFailed>>
    /\ UNCHANGED runVars

\* ... third part: the element is stored; return config; the deferred Unlock
NewConfigStore(p) ==
    /\ ~crashed /\ call[p].pc = "store"
    /\ LET config == MakeConfig(call[p].env, call[p].port) IN
         /\ configsSingletonMapping' =
              [configsSingletonMapping EXCEPT ![call[p].name] = config]
         /\ original' = [original EXCEPT ![call[p].name] =
                           IF @ = Absent THEN config ELSE @]
         /\ result' = [result EXCEPT ![p] =
              [op |-> "NewConfig", kind |-> "ok",
               name |-> call[p].name, present |-> FALSE,
               env |-> call[p].env,
               registeredAtCall |-> call[p].registeredAtCall,
               value |-> config]]
    /\ configLock' = Unlock(configLock, p)
    /\ call' = [call EXCEPT ![p] = NoCall]
    /\ UNCHANGED <<ginPort, crashed, nCalls, dupFailed>>
    /\ UNCHANGED runVars

\* a caller enters GetConfig(configName); no lock is taken
GetConfigCall(p) ==
    /\ ~crashed /\ call[p].pc = "idle"
    /\ nCalls < MaxCalls
    /\ \E n \in Names :
         call' = [call EXCEPT ![p] =
                    [op |-> "GetConfig", pc |-> "read", name |-> n,
                     afterDup |-> (n \in dupFailed)]]
    /\ result' = [result EXCEPT ![p] = NoResult]
    /\ nCalls' = nCalls + 1
    /\ UNCHANGED <<configsSingletonMapping, configLock, ginPort, crashed,
                   original, dupFailed>>
    /\ UNCHANGED runVars

\* a caller enters GetDefaultConfig(): GetConfig(DefaultConfigName)
GetDefaultConfigCall(p) ==
    /\ ~crashed /\ call[p].pc = "idle"
    /\ nCalls < MaxCalls
    /\ call' = [call EXCEPT ![p] =
                  [op |-> "GetDefaultConfig", pc |-> "read",
                   name |-> DefaultConfigName,
                   afterDup |-> (DefaultConfigName \in dupFailed)]]
    /\ result' = [result EXCEPT ![p] = NoResult]
    /\ nCalls' = nCalls + 1
    /\ UNCHANGED <<configsSingletonMapping, configLock, ginPort, crashed,
                   original, dupFailed>>
    /\ UNCHANGED runVars

\* some caller is inside the runtime's map assignment
MapBeingWritten == \E q \in Callers : call[q].pc = "assigning"

\* config, ok := configsSingletonMapping[configName]; if !ok { panic(...) };
\* return config -- what the caller gets for the map state m
GetConfigOutcome(m, name) ==
    IF m[name] = Absent
      THEN [kind |-> "panic", msg |-> <<"does not exist", name>>]
      ELSE [kind |-> "ok", value |-> m[name]]

\* the body of GetConfig.  The read is not synchronized with the write of
\* NewConfig: while the map is being written the runtime may end the process
\* ("concurrent map read and map write"), or the read goes through on the
\* map as it is.
GetConfigRead(p) ==
    /\ ~crashed /\ call[p].pc = "read"
    /\ LET registered ==
             configsSingletonMapping[call[p].name] \notin {Absent, NilConfig}
           base == [op |-> call[p].op, name |-> call[p].name,
                    afterDup |-> call[p].afterDup,
                    registered |-> registered]
           out == GetConfigOutcome(configsSingletonMapping, call[p].name)
       IN \/ /\ MapBeingWritten
             /\ crashed' = TRUE
             /\ result' = [result EXCEPT ![p] = base @@ [kind |-> "fatal"]]
          \/ /\ crashed' = crashed
             /\ result' = [result EXCEPT ![p] = base @@ out]
    /\ call' = [call EXCEPT ![p] = NoCall]
    /\ UNCHANGED <<configsSingletonMapping, configLock, ginPort, nCalls,
                   original, dupFailed>>
    /\ UNCHANGED runVars

NextRegistry ==
    \E p \in Callers :
        \/ NewConfigCall(p) \/ NewConfigLock(p) \/ NewConfigCheck(p)
        \/ NewConfigEnv(p) \/ NewConfigAssignBegin(p)
        \/ NewConfigAssignEnd(p) \/ NewConfigStore(p)
        \/ GetConfigCall(p) \/ GetDefaultConfigCall(p) \/ GetConfigRead(p)

Init == InitRun /\ InitRegistry

\* the registry alone; the server part stays as constructed
InitRegistryOnly == Init /\ variant = "app" /\ portFree = TRUE

SpecRegistry == InitRegistryOnly /\ [][NextRegistry]_vars

NextRun ==
    \/ ServeListen \/ ServeAcceptFail \/ ServeClosed \/ ServeSend
    \/ RequestArrives \/ RequestCompletes
    \/ SignalArrives
    \/ WatcherRecv \/ WatcherCancel
    \/ CoordNotify \/ CoordContext
    \/ CoordSelectSignal \/ CoordRecvSig
    \/ CoordSelectStartUpErr
    \/ CoordShutdown \/ GraceExpires
    \/ ShutdownReturnsDrained \/ ShutdownReturnsDeadline
    \/ CoordClose \/ CoordForcedExit \/ CoordCleanExit

SpecRun == Init /\ [][NextRun]_vars

\* The scheduler runs every goroutine that can take a step, the channel
\* operations complete once enabled, and the grace-period timer fires; the
\* environment (signals, requests, listener failures) owes nothing.
FairRun ==
    /\ WF_vars(ServeListen) /\ WF_vars(ServeClosed)
    /\ WF_vars(ServeSend)
    /\ WF_vars(WatcherRecv) /\ WF_vars(WatcherCancel)
    /\ WF_vars(CoordNotify) /\ WF_vars(CoordContext)
    /\ WF_vars(CoordSelectSignal) /\ WF_vars(CoordRecvSig)
    /\ WF_vars(CoordSelectStartUpErr)
    /\ WF_vars(CoordShutdown) /\ WF_vars(GraceExpires)
    /\ WF_vars(ShutdownReturnsDrained)
    /\ WF_vars(ShutdownReturnsDeadline)
    /\ WF_vars(CoordClose) /\ WF_vars(CoordForcedExit)
    /\ WF_vars(CoordCleanExit)

FairSpecRun == SpecRun /\ FairRun
\* the lifecycle phase of the run, read off the positions of its parts
Phase ==
    IF exit # "running"
      THEN (IF selected = "failure" THEN "Failed" ELSE "Stopped")
      ELSE IF closeCalls > 0 THEN "ForcedClose"
      ELSE IF shutdownCalls > 0 THEN "GracefulShutdown"
      ELSE IF Serving THEN "Serving"
      ELSE "Starting"

\* ------------------------------------------------------------ Run: claims

\* C1 (as claimed): once a recognized signal has been delivered while the
\* listener was serving, a run that has ended has called srv.Shutdown exactly
\* once and has returned (in the Stopped phase).
C1_SignalShutsDownOnce ==
    (sigWhileServing /\ exit # "running")
        => (shutdownCalls = 1 /\ exit = "returned" /\ Phase = "Stopped")

\* C1 (as claimed, liveness half): a recognized signal delivered while the
\* listener is serving leads to the end of the run.
C1_SignalLeadsToExit == sigWhileServing ~> (exit # "running")

\* C2 (as claimed): a run of internal/app whose bind failed and that has ended
\* has returned through the failure branch and was never Serving.
C2_BindFailureOutcome ==
    (variant = "app" /\ lasErr = "bind" /\ exit # "running")
        => (exit = "returned" /\ selected = "failure" /\ ~everServing)

\* C2 (amended): when the bind fails, Run of internal/app returns (it does not
\* hang) and the phase is never Serving; it returns through the failure branch
\* (logged, no Shutdown, no Close) unless the signal cancellation won the
\* select, in which case it returns through the shutdown path.
C2_BindFailureReturns ==
    /\ []((variant = "app" /\ lasErr = "bind") => <>(exit = "returned"))
    /\ [](~portFree => (Phase # "Serving" /\ ~everServing))
    /\ []((variant = "app" /\ lasErr = "bind" /\ exit # "running"
             /\ selected # "signal")
            => (selected = "failure" /\ Phase = "Failed"
                  /\ "failure" \in logged
                  /\ shutdownCalls = 0 /\ closeCalls = 0))

\* C2 witness: the bind failed and Run returned through the failure branch
C2_Witness ==
    variant = "app" /\ lasErr = "bind" /\ exit = "returned"
        /\ selected = "failure"

\* C3 (as claimed): a run whose accept loop failed with a runtime error after
\* serving, and that has ended, has called srv.Shutdown.
C3_RuntimeErrorShutsDown ==
    (lasErr = "runtime" /\ everServing /\ exit # "running")
        => shutdownCalls >= 1

\* C3 (amended): when the accept loop fails with a runtime error after
\* serving and the select receives that error, Run logs the failure and ends
\* at once without calling srv.Shutdown or srv.Close (internal/app returns,
\* internal/any-business exits through log.Fatalf); srv.Shutdown is called in
\* such a run only when the signal cancellation won the select.
C3_RuntimeErrorEndsRun ==
    /\ (lasErr = "runtime" /\ selected = "failure")
         => (/\ exit = (IF variant = "app" THEN "returned" ELSE "fatal")
             /\ "failure" \in logged
             /\ shutdownCalls = 0 /\ closeCalls = 0)
    /\ (lasErr = "runtime" /\ exit # "running" /\ selected # "signal")
         => selected = "failure"
    /\ (lasErr = "runtime" /\ shutdownCalls > 0) => selected = "signal"

\* C3 witness: a runtime error after serving ended the run
C3_Witness ==
    lasErr = "runtime" /\ everServing /\ selected = "failure"
        /\ exit # "running" /\ shutdownCalls = 0

\* C4: when srv.Shutdown returns the deadline error because requests did not
\* drain, no clean-exit line is ever logged, and the run goes on to call
\* srv.Close once, log the forced shutdown, and end.
C4_ForcedCloseTerminates ==
    /\ [](shutdownRes = "deadline" => "exiting" \notin logged)
    /\ [](shutdownRes = "deadline"
            => <>(exit # "running" /\ closeCalls = 1 /\ "forced" \in logged))

\* C4 witness: the deadline passed, the listener was force-closed, Run ended
C4_Witness ==
    shutdownRes = "deadline" /\ closeCalls = 1 /\ "forced" \in logged
        /\ exit # "running" /\ servePc = "done"

\* C5 (as claimed): a run in which srv.Shutdown returned an error, and that
\* has ended, has force-closed the listener, logged, and returned normally.
C5_ShutdownErrorNotFatal ==
    (shutdownRes \in {"deadline", "lnerr"} /\ exit # "running")
        => (exit = "returned" /\ closeCalls = 1 /\ "forced" \in logged)

Lookups == {"GetConfig", "GetDefaultConfig"}

\* a caller is at a statement that reads or writes the map
InMapAccess(p) == call[p].pc \in {"check", "assigning", "store", "read"}

\* C6: a NewConfig for a name that was registered when it was called ends in
\* the "already exists" panic; the snapshot first stored under a name is the
\* one the map holds ever after; and what a lookup of that name returns after
\* the failed call is that first snapshot.
C6_DuplicateLeavesEntry ==
    /\ \A p \in Callers :
         (result[p].op = "NewConfig" /\ result[p].registeredAtCall)
             => (result[p].kind = "panic"
                   /\ result[p].msg = <<"already exists", result[p].name>>)
    /\ \A n \in Names :
         original[n] # Absent => configsSingletonMapping[n] = original[n]
    /\ \A p \in Callers :
         (result[p].op \in Lookups /\ result[p].afterDup)
             => (/\ result[p].kind \in {"ok", "fatal"}
                 /\ result[p].kind = "ok"
                      => (result[p].value = original[result[p].name]
                            /\ result[p].value \notin {Absent, NilConfig}))

\* C6 witness: a duplicate NewConfig has failed and a later lookup of the
\* name returned the first snapshot
C6_Witness ==
    \E p, q \in Callers :
        /\ result[q].op = "NewConfig" /\ result[q].kind = "panic"
        /\ result[q].present
        /\ result[p].op \in Lookups /\ result[p].afterDup
        /\ result[p].name = result[q].name
        /\ result[p].kind = "ok"
        /\ result[p].value = original[result[p].name]

\* C7 (as claimed): a caller that reads or writes the map holds configLock,
\* and no lookup reads the map while a registration is writing it.
C7_MapAccessUnderLock ==
    /\ \A p \in Callers : InMapAccess(p) => p \in configLock
    /\ ~ \E p, q \in Callers :
           call[p].pc = "read" /\ call[q].pc \in {"assigning", "store"}

\* C8 (as claimed): a lookup of a name that is not registered when the map is
\* read fails; it returns no snapshot at all, so no nil one.
C8_UnknownNameFails ==
    \A p \in Callers :
        (result[p].op \in Lookups /\ ~result[p].registered)
            => result[p].kind \in {"panic", "fatal"}

\* C9: a NewConfig that got past the duplicate check succeeds exactly when
\* the environment it read is testing, development, staging or production
\* (and then stores a snapshot with that environment); otherwise it panics
\* with a message holding the value read and the allowed environments.
C9_EnvironmentValidation ==
    \A p \in Callers :
        (result[p].op = "NewConfig" /\ ~result[p].present)
            => (/\ (result[p].kind = "ok")
                     <=> (result[p].env \in
                            {"testing", "development", "staging", "production"})
                /\ result[p].kind = "ok"
                     => (result[p].value.Env = result[p].env
                           /\ configsSingletonMapping[result[p].name]
                                = result[p].value)
                /\ result[p].kind # "ok"
                     => (result[p].kind = "panic"
                           /\ result[p].msg =
                                <<"Invalid environment", result[p].env,
                                  <<"testing", "development", "staging",
                                    "production">> >>))

\* C9 witness: one NewConfig failed on a value that is no environment, one
\* succeeded on staging
C9_Witness ==
    \E p, q \in Callers :
        /\ result[p].op = "NewConfig" /\ result[p].kind = "panic"
        /\ ~result[p].present /\ result[p].env = "Production"
        /\ result[q].op = "NewConfig" /\ result[q].kind = "ok"
        /\ result[q].env = "staging"

\* --------------------------------------------------- Run: further claims

\* C11 (as claimed): in a run in which srv.ListenAndServe returned a bind
\* error, neither srv.Shutdown nor srv.Close is ever called.
C11_BindFailureNoShutdown ==
    lasErr = "bind" => (shutdownCalls = 0 /\ closeCalls = 0)

\* C11 (amended): in a run in which srv.ListenAndServe returned a bind error,
\* srv.Close is never called, and srv.Shutdown is not called when the select
\* receives the error; it is called (once, on a server without a listener,
\* and it returns nil) only when a recognized signal was delivered and the
\* cancellation branch won the select.
C11_BindFailureShutdownOnlyBySignal ==
    lasErr = "bind" =>
        /\ closeCalls = 0
        /\ selected = "failure" => shutdownCalls = 0
        /\ shutdownCalls > 0 =>
              (/\ shutdownCalls = 1
               /\ selected = "signal"
               /\ "signal" \in logged
               /\ shutdownRes \in {"none", "nil"})

\* C11 witness: the bind failed, a signal was delivered as well, and the run
\* ended through srv.Shutdown with the bind error left in the channel
C11_Witness ==
    /\ lasErr = "bind" /\ selected = "signal" /\ shutdownCalls = 1
    /\ startUpErr = <<"bind">> /\ exit = "returned"

\* C12: srv.Shutdown is called at most once in a run, whatever ended it
\* (signal, runtime error, bind error) and in whatever order the events came.
C12_ShutdownAtMostOnce == shutdownCalls <= 1

\* C12 witness: a run that saw a runtime error of the listener and two
\* signals has ended after one call of srv.Shutdown
C12_Witness ==
    /\ shutdownCalls = 1 /\ exit # "running"
    /\ lasErr = "runtime" /\ nSignals = MaxSignals /\ sigCh # <<>>

\* C13: srv.Close is called only after srv.Shutdown was called and returned an
\* error; when srv.Shutdown returned nil, srv.Close is never called and a run
\* that has ended has returned on the clean path; the forced-shutdown line and
\* the "Server exiting" line are never both logged.
C13_CloseOnlyAfterFailedShutdown ==
    /\ closeCalls > 0 =>
          (shutdownCalls >= 1 /\ shutdownRes \notin {"none", "nil"})
    /\ pc = "close" => (shutdownCalls >= 1 /\ shutdownRes \notin {"none", "nil"})
    /\ shutdownRes = "nil" =>
          (/\ closeCalls = 0
           /\ pc \in {"cleanup", "done"}
           /\ exit # "running" =>
                 (exit = "returned" /\ "exiting" \in logged))
    /\ ~ ("forced" \in logged /\ "exiting" \in logged)

\* C13 witness: srv.Shutdown failed on closing the listener, srv.Close
\* followed, and the forced line was logged
C13_Witness ==
    /\ shutdownRes = "lnerr" /\ closeCalls = 1 /\ "forced" \in logged
    /\ "exiting" \notin logged /\ exit # "running"

\* C14: one termination event is observed, once.  The select takes one branch
\* and never another; srv.Shutdown follows the cancellation or a nil
\* completion only; after the select nothing is received from the completion
\* channel, so the value the serving goroutine writes later stays in it; and
\* a signal is received from sigCh only when none has been received (and
\* logged) before, and from the channel of NotifyContext only while its
\* context is not yet cancelled.
C14_OneEventObservedOnce ==
    /\ [](shutdownCalls > 0 => selected \in {"signal", "stopped"})
    /\ [][selected # "none" => selected' = selected]_vars
    /\ [][selected # "none" => Len(startUpErr') >= Len(startUpErr)]_vars
    /\ []((selected = "signal" /\ servePc = "done") => Len(startUpErr) = 1)
    /\ [][Len(sigCh') < Len(sigCh) => "signal" \notin logged]_vars
    /\ [][Len(ncCh') < Len(ncCh) => ~ctxDone]_vars

\* C14 witness: the signal branch was taken, the run ended, and both the
\* value written by the serving goroutine and a second signal are left unread
C14_Witness ==
    /\ variant = "app" /\ selected = "signal" /\ exit = "returned"
    /\ servePc = "done" /\ startUpErr = <<"nil">>
    /\ watcherPc = "done" /\ sigCh # <<>>

\* C15: when srv.ListenAndServe returned http.ErrServerClosed, the serving
\* goroutine writes nil to the completion channel, srv.Shutdown had been
\* called, and the run is neither logged nor ended as a startup/runtime
\* failure.
C15_IntentionalCloseNotAnError ==
    /\ (lasErr = "ErrServerClosed" /\ servePc = "done")
          => startUpErr = <<"nil">>
    /\ lasErr = "ErrServerClosed"
          => (/\ shutdownCalls >= 1
              /\ selected # "failure"
              /\ "failure" \notin logged
              /\ Phase # "Failed"
              /\ exit # "running" => Phase = "Stopped")

\* C15 witness: the listener served, was closed by srv.Shutdown and then by
\* srv.Close, and the goroutine finished after writing nil
C15_Witness ==
    /\ lasErr = "ErrServerClosed" /\ servePc = "done" /\ everServing
    /\ startUpErr = <<"nil">> /\ closeCalls = 1 /\ exit # "running"

\* C16 (as claimed): a run that created the grace-period context and has
\* ended has released it (its cancel function was called).
C16_GraceContextReleased ==
    (graceCtx # "none" /\ exit # "running") => graceCtx = "released"

\* C17: a recognized signal that arrives while shutdown is in progress changes
\* nothing but the signal channels; nothing receives it afterwards; the grace
\* period ends only by its timer (with requests still in flight) or by the
\* release at the return of Run, never by cancellation; srv.Close follows an
\* error of srv.Shutdown only; and the run ends on the path srv.Shutdown's
\* result selects.
C17_SecondSignalIgnored ==
    /\ [][(nSignals' # nSignals /\ shutdownCalls > 0)
            => UNCHANGED <<graceCtx, closeCalls, shutdownCalls, shutdownRes,
                           pc, inShutdown, listening, conns, logged, exit,
                           ctxDone, watcherPc, servePc>>]_vars
    /\ [][shutdownCalls > 0
            => (Len(sigCh') >= Len(sigCh) /\ Len(ncCh') >= Len(ncCh))]_vars
    /\ [][(graceCtx = "active" /\ graceCtx' # "active")
            => ((graceCtx' = "expired" /\ conns > 0)
                \/ (graceCtx' = "released" /\ exit' = "returned"))]_vars
    /\ [](graceCtx # "cancelled" /\ shutdownRes # "canceled")
    /\ [](closeCalls > 0 => shutdownRes \in {"deadline", "lnerr"})
    /\ []((sigInShutdown /\ exit # "running")
            => (/\ shutdownRes = "nil" <=> "exiting" \in logged
                /\ shutdownRes \in {"deadline", "lnerr"}
                      <=> "forced" \in logged))

\* C17 witness: a second recognized signal arrived during shutdown, stayed in
\* the channel, and the run ended on the clean path
C17_Witness ==
    /\ sigInShutdown /\ sigCh # <<>> /\ shutdownRes = "nil"
    /\ closeCalls = 0 /\ "exiting" \in logged /\ exit = "returned"

\* C19: the serving goroutine sends on the completion channel once: the
\* channel never holds more than one value, only that goroutine adds to it
\* and then it is finished; the send finds room whenever the goroutine is
\* about to make it; and once srv.ListenAndServe has returned the goroutine
\* ends (or the process has exited), also when the select took the signal
\* branch and nothing receives the value.
C19_SingleSendNeverBlocks ==
    /\ [](Len(startUpErr) <= 1)
    /\ [][Len(startUpErr') > Len(startUpErr)
            => (servePc = "returned" /\ servePc' = "done")]_vars
    /\ [][servePc = "done" => servePc' = "done"]_vars
    /\ [](servePc = "returned" => Len(startUpErr) < ChanCap)
    /\ [](servePc = "returned" => <>(servePc = "done" \/ exit = "fatal"))

\* C19 witness: the signal branch was taken, and the goroutine has finished
\* with its value unread in the channel, written after srv.Shutdown
C19_Witness ==
    /\ selected = "signal" /\ servePc = "done" /\ Len(startUpErr) = 1
    /\ shutdownAt = "serving" /\ pc = "done"

\* C20 (as claimed): once Run has returned, the serving goroutine and the
\* signal watcher both come to an end.
C20_GoroutinesTerminate ==
    (exit = "returned") ~> (servePc = "done" /\ watcherPc = "done")

\* ----------------------------------------------- registry: further claims

\* C18: the registry is append-only.  No step of any call, succeeding or
\* failing, removes a key from the map, and the snapshot stored under a name
\* is never replaced: the set of registered names only grows.
C18_RegistryAppendOnly ==
    /\ [][\A n \in Names :
            configsSingletonMapping[n] # Absent
                => configsSingletonMapping'[n] # Absent]_vars
    /\ [][\A n \in Names :
            configsSingletonMapping[n] \notin {Absent, NilConfig}
                => configsSingletonMapping'[n] = configsSingletonMapping[n]]_vars

\* C18 witness: every name is registered with its first snapshot, after a
\* duplicate registration has failed
C18_Witness ==
    /\ \A n \in Names :
          /\ configsSingletonMapping[n] \notin {Absent, NilConfig}
          /\ configsSingletonMapping[n] = original[n]
    /\ dupFailed # {}
    /\ \A p \in Callers : call[p] = NoCall

\* one of the steps a caller inside NewConfig takes while it holds the mutex
HolderStep(q) ==
    \/ NewConfigCheck(q) \/ NewConfigEnv(q) \/ NewConfigAssignBegin(q)
    \/ NewConfigAssignEnd(q) \/ NewConfigStore(q)

\* C21: a NewConfig that fails releases configLock in the step in which it
\* fails, so the mutex is held only by a caller that is inside NewConfig and
\* has a step to take: a caller waiting for the mutex is never stuck behind a
\* finished call.  (Lookups take no lock and are never made to wait.)
C21_FailedNewConfigUnlocks ==
    /\ [][\A p \in Callers :
            (call[p].op = "NewConfig" /\ call'[p] = NoCall
               /\ result'[p].kind = "panic")
                => (p \in configLock /\ configLock' = {})]_vars
    /\ [](\A p \in Callers :
            p \in configLock
                => (call[p].op = "NewConfig"
                      /\ call[p].pc \in {"check", "env", "assign",
                                         "assigning", "store"}))
    /\ [](Cardinality(configLock) <= 1)
    /\ [](\A p \in Callers :
            (call[p].pc = "lock" /\ ~crashed)
                => (ENABLED NewConfigLock(p)
                      \/ \E q \in configLock : ENABLED HolderStep(q)))

\* C21 witness: one caller's NewConfig has failed on a duplicate name, and
\* another caller, having taken the mutex after it, is about to complete
C21_Witness ==
    \E p, q \in Callers :
        /\ p # q
        /\ result[q].op = "NewConfig" /\ result[q].kind = "panic"
        /\ result[q].present
        /\ call[q] = NoCall
        /\ p \in configLock /\ call[p].pc = "store"

\* C22: a NewConfig that fails the environment validation leaves the map as
\* it was, with no key for the name (so no snapshot with an environment
\* outside the four is ever in the map); a lookup that reads the map while
\* the name has no key fails; and the duplicate check lets a NewConfig for a
\* name without a key through to the validation.
C22_InvalidEnvInsertsNothing ==
    /\ [][\A p \in Callers :
            (call[p].pc = "env" /\ call'[p] = NoCall)
                => (/\ result'[p].kind = "panic"
                    /\ configsSingletonMapping' = configsSingletonMapping
                    /\ configsSingletonMapping[call[p].name] = Absent
                    /\ original' = original)]_vars
    /\ [](\A n \in Names :
            configsSingletonMapping[n] \notin {Absent, NilConfig}
                => configsSingletonMapping[n].Env \in
                      {"testing", "development", "staging", "production"})
    /\ [][\A p \in Callers :
            (call[p].pc = "read" /\ call'[p] = NoCall
               /\ configsSingletonMapping[call[p].name] = Absent)
                => result'[p].kind \in {"panic", "fatal"}]_vars
    /\ [][\A p \in Callers :
            (call[p].pc = "check" /\ call'[p] # call[p]
               /\ configsSingletonMapping[call[p].name] = Absent)
                => call'[p].pc = "env"]_vars

\* C22 witness: a NewConfig failed on an invalid environment, and a NewConfig
\* for the same name then succeeded and its snapshot is in the map
C22_Witness ==
    \E p, q \in Callers :
        /\ result[q].op = "NewConfig" /\ result[q].kind = "panic"
        /\ ~result[q].present
        /\ result[p].op = "NewConfig" /\ result[p].kind = "ok"
        /\ result[p].name = result[q].name
        /\ configsSingletonMapping[result[p].name] = result[p].value
====
